---- MODULE Spec2Model ----
(***************************************************************************)
(* A model of discord-lord: the scraper's scrape_user_messages             *)
(* (src/scrape.py) and the bot's on_message handler (src/message.py).      *)
(*                                                                         *)
(* Spec    : one run of scrape_user_messages, message by message.          *)
(* SpecBot : the bot's on_message handler, event by event.                 *)
(***************************************************************************)
EXTENDS Integers, Sequences, FiniteSets, TLC

VARIABLES
    \* ---- scrape_user_messages (src/scrape.py) ----
    channel_id,              \* argument: 0 stands for None
    time_threshold_minutes,  \* argument
    guild_channels,          \* the text channels the client can see
    channels,                \* the list the for loop of line 50 walks
    ci,                      \* position of that for loop (1-based)
    pc,                      \* "start", "channel", "loop", "done"; "raised" when
                             \* an exception has left the function
    all_messages,            \* line 55-60, chronological after the reverse
    i,                       \* the enumerate index of line 67 (0-based)
    current_group,           \* line 63
    preceding_message,       \* line 64
    result_messages,         \* line 32
    saved,                   \* per entry of result_messages: the channel and the
                             \* ids of the messages save_message_group was given
    log,                     \* what the scraper printed
    \* ---- on_message (src/message.py) ----
    pending,                 \* message events not yet dispatched to on_message
    sent,                    \* the lines message.channel.send delivered, in order
    posts,                   \* number of messages users have posted
    last                     \* the last on_message run: its message, what it
                             \* printed and the send calls that went through

scrapeVars == <<channel_id, time_threshold_minutes, guild_channels, channels, ci, pc,
                all_messages, i, current_group, preceding_message,
                result_messages, saved, log>>
botVars == <<pending, sent, posts, last>>
vars == <<channel_id, time_threshold_minutes, guild_channels, channels, ci, pc,
          all_messages, i, current_group, preceding_message,
          result_messages, saved, log, pending, sent, posts, last>>

---------------------------------------------------------------------------
\* Bounds of the exploration.

\* Longest history of the channel when one channel is scraped (--channel_id).
MaxMsgs == 3
\* Longest history of each channel when all channels are scraped.
MaxMsgsAll == 1
\* Most text channels the client sees.
MaxChannels == 2

\* --user_id: the author whose messages are scraped; 2 is anybody else.
user_id == 1
Authors == {1, 2}
\* clean_content of a message: empty (an attachment, an embed) or not.
Texts == {"", "a"}
\* Seconds between a message and the one before it: the default --time_gap
\* of 30 minutes exactly, and one second more.
Deltas == {1800, 1801}
\* --time_gap values explored (minutes): the default, and twice the default,
\* which two messages 1800 seconds apart each add up to exactly.
Thresholds == {30, 60}
\* message.reference of a message: no reply, a reply whose target resolves, a
\* reply whose target was deleted.
References == {"none", "live", "deleted"}
\* clean_content of the message a live reference resolves to.
ReferencedText == "r"

\* Python's None where a Message is expected.
None == [id |-> 0, author |-> 0, clean_content |-> "", created_at |-> 0,
         reference |-> "none"]

---------------------------------------------------------------------------
\* Histories channel.history can yield.

\* What is drawn per message.  Reply references are drawn for the non-empty
\* messages of the scraped author, the only ones that can open a group.
MsgKinds ==
    [author : {user_id}, clean_content : Texts \ {""}, delta : Deltas,
     reference : References]
    \cup [author : {user_id}, clean_content : {""}, delta : Deltas,
          reference : {"none"}]
    \cup [author : Authors \ {user_id}, clean_content : Texts, delta : Deltas,
          reference : {"none"}]

RECURSIVE CreatedAt(_, _)
CreatedAt(kinds, k) ==
    IF k = 0 THEN 0 ELSE CreatedAt(kinds, k - 1) + kinds[k].delta

\* The messages of a channel, oldest first; a message's id is its rank.
Chronological(kinds) ==
    [k \in 1..Len(kinds) |->
        [id |-> k, author |-> kinds[k].author,
         clean_content |-> kinds[k].clean_content,
         created_at |-> CreatedAt(kinds, k),
         reference |-> kinds[k].reference]]

Reverse(s) == [k \in 1..Len(s) |-> s[Len(s) + 1 - k]]

\* channel.history(limit) yields the newest message first.
Histories(maxlen) ==
    UNION {{Reverse(Chronological(kinds)) : kinds \in [1..n -> MsgKinds]} :
           n \in 0..maxlen}

HistoryBound == IF channel_id # 0 THEN MaxMsgs ELSE MaxMsgsAll

---------------------------------------------------------------------------
\* scrape_user_messages: the loop body

\* Variant: the reply's target taken as the preceding message whenever the
\* first message carries a reference, a deleted target reading as no text.
SavedTurnReplyAlways(msgs, prev_msg) ==
    [group |-> [k \in 1..Len(msgs) |-> msgs[k].clean_content],
     prev |-> IF msgs[1].reference = "live" THEN ReferencedText
              ELSE IF msgs[1].reference = "deleted" THEN ""
              ELSE IF prev_msg # None THEN prev_msg.clean_content ELSE ""]

\* save_message_group: the dictionary appended to result_messages.
SavedTurn(msgs, prev_msg) ==
    [group |-> [k \in 1..Len(msgs) |-> msgs[k].clean_content],
     prev |-> IF prev_msg # None THEN prev_msg.clean_content ELSE ""]

\* The ids of one save_message_group call.
SavedIds(msgs) == [k \in 1..Len(msgs) |-> msgs[k].id]

\* Variant: the author alone decides, the text is not looked at.
IsTargetAny(m) == m.author = user_id

\* line 68
IsTargetText(m) == m.author = user_id /\ m.clean_content # ""

\* Variant: the gap is measured from the first message of the group.
GapExceededFromFirst(m, group, minutes) ==
    /\ group # <<>>
    /\ m.created_at - group[1].created_at > minutes * 60

\* Variant: a gap equal to the threshold splits too.
GapExceededAtThreshold(m, group, minutes) ==
    /\ group # <<>>
    /\ m.created_at - group[Len(group)].created_at >= minutes * 60

\* line 70
GapExceeded(m, group, minutes) ==
    /\ group # <<>>
    /\ m.created_at - group[Len(group)].created_at > minutes * 60

\* Variant: preceding_message is not refreshed when a group opens.
PrecedingForStale(idx, msgs, prec) == prec

\* lines 77-78 and 83-84: preceding_message when message idx opens a group.
PrecedingFor(idx, msgs, prec) ==
    IF idx > 0 THEN msgs[idx] ELSE prec

\* lines 70-86: the group and preceding message after message idx (0-based)
\* of the scraped author is taken in, and the group saved on a gap.
TakeIn(idx, msgs, group, prec, minutes) ==
    LET m == msgs[idx + 1] IN
    IF GapExceeded(m, group, minutes)
    THEN [group |-> <<m>>,
          prec |-> PrecedingFor(idx, msgs, prec),
          saves |-> << <<group, prec>> >>]
    ELSE [group |-> Append(group, m),
          prec |-> IF group = <<>> THEN PrecedingFor(idx, msgs, prec) ELSE prec,
          saves |-> <<>>]

\* Variant: the group is not saved at the last message of the channel.
AfterTakeInNoLast(idx, msgs, st) ==
    IF idx < Len(msgs) - 1 /\ msgs[idx + 2].author # user_id
    THEN [group |-> <<>>, prec |-> None,
          saves |-> Append(st.saves, <<st.group, st.prec>>)]
    ELSE st

\* lines 88-98: what follows the take-in.
AfterTakeIn(idx, msgs, st) ==
    IF idx = Len(msgs) - 1
    THEN [st EXCEPT !.saves = Append(@, <<st.group, st.prec>>)]
    ELSE IF idx < Len(msgs) - 1 /\ msgs[idx + 2].author # user_id
    THEN [group |-> <<>>, prec |-> None,
          saves |-> Append(st.saves, <<st.group, st.prec>>)]
    ELSE st

\* Variant: the else branch saves without looking at the group.
OtherMessageAlwaysSaves(group, prec) ==
    [group |-> <<>>, prec |-> None, saves |-> << <<group, prec>> >>]

\* Variant: the else branch leaves a group in progress alone.
OtherMessageKeeps(group, prec) ==
    [group |-> group, prec |-> prec, saves |-> <<>>]

\* lines 99-107: the else branch of line 68.
OtherMessage(group, prec) ==
    IF group # <<>>
    THEN [group |-> <<>>, prec |-> None, saves |-> << <<group, prec>> >>]
    ELSE [group |-> group, prec |-> prec, saves |-> <<>>]

\* Variant: an empty message of the scraped author is passed over, the
\* group in progress left as it is.
LoopBodySkipsEmpty(idx, msgs, group, prec, minutes) ==
    IF IsTargetText(msgs[idx + 1])
    THEN AfterTakeIn(idx, msgs, TakeIn(idx, msgs, group, prec, minutes))
    ELSE IF msgs[idx + 1].author = user_id
    THEN [group |-> group, prec |-> prec, saves |-> <<>>]
    ELSE OtherMessage(group, prec)

\* lines 67-107: one iteration of the loop over all_messages.
LoopBody(idx, msgs, group, prec, minutes) ==
    IF IsTargetText(msgs[idx + 1])
    THEN AfterTakeIn(idx, msgs, TakeIn(idx, msgs, group, prec, minutes))
    ELSE OtherMessage(group, prec)

---------------------------------------------------------------------------
\* on_message (src/message.py)

\* Most messages users post.
MaxPosts == 1
\* Most tokens of a generated text.
MaxGen == 3

\* line 16; the id itself is 1345645691875233878.
TARGET_CHANNEL_ID == 1
\* Any other channel the bot can see.
OtherChannel == 2

\* The generated text is a sequence of pieces: "HEAD" is "### Response:",
\* "NL" a newline, "EOS" the text "<eos>", "ESC" the three characters of
\* r'\\n' (two backslashes and an n), "a" any other text.
Pieces == {"HEAD", "NL", "EOS", "ESC", "a"}

\* tokenizer.batch_decode(model.generate(...))[0], lines 63-66.
Generations == UNION {[1..n -> Pieces] : n \in 0..MaxGen}

\* Before any on_message run.
NoRun == [handled |-> FALSE, message |-> [author |-> "", channel |-> 0],
          matched |-> FALSE, printed |-> <<>>, delivered |-> <<>>,
          commands |-> FALSE]

\* lines 70-73: where re.search finds r"(?<=### Response:\n)(.*)": the
\* positions right after a "### Response:" followed by a newline.
MatchStarts(generated) ==
    {k \in 1..Len(generated) + 1 :
        k > 2 /\ generated[k - 2] = "HEAD" /\ generated[k - 1] = "NL"}

\* line 75
Matched(generated) == MatchStarts(generated) # {}

\* line 76: match.group(1), from the first match to the end (re.DOTALL).
Group1(generated) ==
    LET first == CHOOSE k \in MatchStarts(generated) :
                    \A j \in MatchStarts(generated) : k <= j
    IN SubSeq(generated, first, Len(generated))

\* line 77: generated.replace(r'\\n', '\n')
ReplaceEscaped(text) ==
    [k \in 1..Len(text) |-> IF text[k] = "ESC" THEN "NL" ELSE text[k]]

\* line 78: generated.replace('<eos>', '')
RECURSIVE RemoveEos(_)
RemoveEos(text) ==
    IF text = <<>> THEN <<>>
    ELSE IF Head(text) = "EOS" THEN RemoveEos(Tail(text))
    ELSE <<Head(text)>> \o RemoveEos(Tail(text))

\* lines 75-80: the text that is split and sent.
Extracted(generated) ==
    IF Matched(generated)
    THEN RemoveEos(ReplaceEscaped(Group1(generated)))
    ELSE generated

\* line 82: text.split("\n"); never empty.
RECURSIVE SplitLines(_)
SplitLines(text) ==
    IF \A k \in 1..Len(text) : text[k] # "NL" THEN <<text>>
    ELSE LET nl == CHOOSE k \in 1..Len(text) :
                     text[k] = "NL" /\ \A j \in 1..(k - 1) : text[j] # "NL"
         IN <<SubSeq(text, 1, nl - 1)>> \o
            SplitLines(SubSeq(text, nl + 1, Len(text)))

\* Variant: the author of the message is not looked at.
IsOwnMessageNever(message) == FALSE

\* line 45
IsOwnMessage(message) == message.author = "bot"

\* line 49
InTargetChannel(message) == message.channel = TARGET_CHANNEL_ID

\* lines 51, 68 and 80: what the handler prints for a generated text.
Printed(generated) ==
    <<"got message", "response">> \o
    (IF Matched(generated) THEN <<>> ELSE <<"No match found">>)

\* lines 82-83: the lines handed to message.channel.send, in order.
ToSend(generated) == SplitLines(Extracted(generated))

\* line 83: how many of the lines can go through.  Discord refuses a
\* message without content, so the send of an empty line raises.
MaxDelivered(lines) ==
    IF \A k \in 1..Len(lines) : lines[k] # <<>> THEN Len(lines)
    ELSE (CHOOSE k \in 1..Len(lines) :
            lines[k] = <<>> /\ \A j \in 1..(k - 1) : lines[j] # <<>>) - 1

\* The message event a delivered message comes back as.
Echo(message, lines) ==
    [k \in 1..Len(lines) |-> [author |-> "bot", channel |-> message.channel]]

---------------------------------------------------------------------------
\* Initial states

\* scrape_user_messages is called: its arguments, and lines 32-35.
ScrapeStart ==
    /\ time_threshold_minutes \in Thresholds
    /\ \/ /\ channel_id = 0
          /\ \E n \in 0..MaxChannels : guild_channels = [k \in 1..n |-> k]
       \/ /\ channel_id \in {1, 2}
          /\ guild_channels = <<1>>
    /\ channels = <<>>
    /\ ci = 1
    /\ pc = "start"
    /\ all_messages = <<>>
    /\ i = 0
    /\ current_group = <<>>
    /\ preceding_message = None
    /\ result_messages = <<>>
    /\ saved = <<>>
    /\ log = <<>>

\* The bot is connected and no message has arrived.
BotStart ==
    /\ pending = <<>>
    /\ sent = <<>>
    /\ posts = 0
    /\ last = NoRun

Init == ScrapeStart /\ BotStart

\* The bot alone: the scraper is a separate script, here one that found
\* no channel to scrape.
InitBot ==
    /\ BotStart
    /\ time_threshold_minutes = 30
    /\ channel_id = 0
    /\ guild_channels = <<>>
    /\ channels = <<>>
    /\ ci = 1
    /\ pc = "done"
    /\ all_messages = <<>>
    /\ i = 0
    /\ current_group = <<>>
    /\ preceding_message = None
    /\ result_messages = <<>>
    /\ saved = <<>>
    /\ log = <<>>

---------------------------------------------------------------------------
\* scrape_user_messages: the steps

\* lines 38-44, channel_id given and client.get_channel finds it.
ResolveChannel ==
    /\ pc = "start"
    /\ channel_id # 0
    /\ \E k \in 1..Len(guild_channels) : guild_channels[k] = channel_id
    /\ channels' = <<channel_id>>
    /\ pc' = "channel"
    /\ UNCHANGED <<channel_id, time_threshold_minutes, guild_channels, ci,
                   all_messages, i, current_group, preceding_message,
                   result_messages, saved, log>>
    /\ UNCHANGED botVars

\* lines 38-42, channel_id given and client.get_channel returns None.
ChannelNotFound ==
    /\ pc = "start"
    /\ channel_id # 0
    /\ \A k \in 1..Len(guild_channels) : guild_channels[k] # channel_id
    /\ log' = Append(log, <<"NotFound", channel_id>>)
    /\ pc' = "done"
    /\ UNCHANGED <<channel_id, time_threshold_minutes, guild_channels, channels,
                   ci, all_messages, i, current_group, preceding_message,
                   result_messages, saved>>
    /\ UNCHANGED botVars

\* lines 45-47, no channel_id: every text channel.
AllChannels ==
    /\ pc = "start"
    /\ channel_id = 0
    /\ channels' = guild_channels
    /\ pc' = "channel"
    /\ UNCHANGED <<channel_id, time_threshold_minutes, guild_channels, ci,
                   all_messages, i, current_group, preceding_message,
                   result_messages, saved, log>>
    /\ UNCHANGED botVars

\* Variant: the grouping variables are not reset for the new channel.
FetchHistoryKeepsGroup ==
    /\ pc = "channel"
    /\ ci <= Len(channels)
    /\ \E history \in Histories(HistoryBound) :
          all_messages' = Reverse(history)
    /\ log' = Append(log, <<"Scraping", channels[ci]>>)
    /\ i' = 0
    /\ pc' = "loop"
    /\ UNCHANGED <<channel_id, time_threshold_minutes, guild_channels, channels,
                   ci, current_group, preceding_message, result_messages, saved>>
    /\ UNCHANGED botVars

\* lines 50-64: the history of channel ci is fetched and reversed, the
\* grouping variables are reset.
FetchHistory ==
    /\ pc = "channel"
    /\ ci <= Len(channels)
    /\ \E history \in Histories(HistoryBound) :
          all_messages' = Reverse(history)
    /\ log' = Append(log, <<"Scraping", channels[ci]>>)
    /\ current_group' = <<>>
    /\ preceding_message' = None
    /\ i' = 0
    /\ pc' = "loop"
    /\ UNCHANGED <<channel_id, time_threshold_minutes, guild_channels, channels,
                   ci, result_messages, saved>>
    /\ UNCHANGED botVars

\* Variant: discord.errors.Forbidden is not caught and leaves the function.
FetchForbiddenPropagates ==
    /\ pc = "channel"
    /\ ci <= Len(channels)
    /\ log' = Append(log, <<"Scraping", channels[ci]>>)
    /\ pc' = "raised"
    /\ UNCHANGED <<channel_id, time_threshold_minutes, guild_channels, channels,
                   ci, all_messages, i, current_group, preceding_message,
                   result_messages, saved>>
    /\ UNCHANGED botVars

\* lines 56 and 109-110: channel.history raises discord.errors.Forbidden.
FetchForbidden ==
    /\ pc = "channel"
    /\ ci <= Len(channels)
    /\ log' = log \o << <<"Scraping", channels[ci]>>, <<"Forbidden", channels[ci]>> >>
    /\ ci' = ci + 1
    /\ UNCHANGED <<channel_id, time_threshold_minutes, guild_channels, channels,
                   pc, all_messages, i, current_group, preceding_message,
                   result_messages, saved>>
    /\ UNCHANGED botVars

\* lines 56 and 111-112: channel.history raises any other exception.
FetchError ==
    /\ pc = "channel"
    /\ ci <= Len(channels)
    /\ log' = log \o << <<"Scraping", channels[ci]>>, <<"Error", channels[ci]>> >>
    /\ ci' = ci + 1
    /\ UNCHANGED <<channel_id, time_threshold_minutes, guild_channels, channels,
                   pc, all_messages, i, current_group, preceding_message,
                   result_messages, saved>>
    /\ UNCHANGED botVars

\* lines 67-107: message i of the channel is processed.
ProcessMessage ==
    /\ pc = "loop"
    /\ i < Len(all_messages)
    /\ LET st == LoopBody(i, all_messages, current_group, preceding_message,
                          time_threshold_minutes)
       IN /\ current_group' = st.group
          /\ preceding_message' = st.prec
          /\ result_messages' = result_messages \o
                [k \in 1..Len(st.saves) |-> SavedTurn(st.saves[k][1], st.saves[k][2])]
          /\ saved' = saved \o
                [k \in 1..Len(st.saves) |->
                    [ch |-> ci, ids |-> SavedIds(st.saves[k][1])]]
    /\ i' = i + 1
    /\ UNCHANGED <<channel_id, time_threshold_minutes, guild_channels, channels,
                   ci, pc, all_messages, log>>
    /\ UNCHANGED botVars

\* line 67 exhausted: on to the next channel of line 50.
EndChannel ==
    /\ pc = "loop"
    /\ i = Len(all_messages)
    /\ ci' = ci + 1
    /\ pc' = "channel"
    /\ UNCHANGED <<channel_id, time_threshold_minutes, guild_channels, channels,
                   all_messages, i, current_group, preceding_message,
                   result_messages, saved, log>>
    /\ UNCHANGED botVars

\* line 114
Return ==
    /\ pc = "channel"
    /\ ci > Len(channels)
    /\ pc' = "done"
    /\ UNCHANGED <<channel_id, time_threshold_minutes, guild_channels, channels,
                   ci, all_messages, i, current_group, preceding_message,
                   result_messages, saved, log>>
    /\ UNCHANGED botVars

Next ==
    \/ ResolveChannel
    \/ ChannelNotFound
    \/ AllChannels
    \/ FetchHistory
    \/ FetchForbidden
    \/ FetchError
    \/ ProcessMessage
    \/ EndChannel
    \/ Return

Spec == Init /\ [][Next]_vars

---------------------------------------------------------------------------
\* on_message: the handler and the events it is given

\* A user posts a message in some channel; the gateway queues the event.
UserPost ==
    /\ posts < MaxPosts
    /\ \E c \in {TARGET_CHANNEL_ID, OtherChannel} :
          pending' = Append(pending, [author |-> "user", channel |-> c])
    /\ posts' = posts + 1
    /\ UNCHANGED <<sent, last>>
    /\ UNCHANGED scrapeVars

\* lines 43-86: on_message for the oldest pending event.  A send call may
\* raise (the line is empty, or the HTTP request fails): the handler then
\* ends there, the earlier lines delivered, process_commands not reached.
OnMessage ==
    /\ pending # <<>>
    /\ LET message == Head(pending) IN
       IF IsOwnMessage(message)
       THEN /\ pending' = Tail(pending)
            /\ sent' = sent
            /\ last' = [NoRun EXCEPT !.handled = TRUE, !.message = message]
       ELSE IF InTargetChannel(message)
       THEN \E generated \in Generations :
            \E n \in 0..MaxDelivered(ToSend(generated)) :
               LET delivered == SubSeq(ToSend(generated), 1, n) IN
               /\ sent' = sent \o delivered
               /\ pending' = Tail(pending) \o Echo(message, delivered)
               /\ last' = [handled |-> TRUE, message |-> message,
                           matched |-> Matched(generated),
                           printed |-> Printed(generated),
                           delivered |-> delivered,
                           commands |-> n = Len(ToSend(generated))]
       ELSE /\ pending' = Tail(pending)
            /\ sent' = sent
            /\ last' = [NoRun EXCEPT !.handled = TRUE, !.message = message,
                                     !.commands = TRUE]
    /\ UNCHANGED posts
    /\ UNCHANGED scrapeVars

NextBot ==
    \/ UserPost
    \/ OnMessage

SpecBot == InitBot /\ [][NextBot]_vars

---------------------------------------------------------------------------
\* Properties of scrape_user_messages.  A Turn is an entry of
\* result_messages; the Turns of the channel being scraped are those saved
\* under channel ci, and all_messages is then that channel's history.

CurTurns == {t \in 1..Len(saved) : saved[t].ch = ci}
InTurn(t, p) == \E j \in 1..Len(saved[t].ids) : saved[t].ids[j] = p
SameTurn(p, q) == \E t \in CurTurns : InTurn(t, p) /\ InTurn(t, q)
SeparateTurns(p, q) ==
    \E t, u \in CurTurns : t # u /\ InTurn(t, p) /\ InTurn(u, q)
\* The loop of line 67 has gone through the whole channel.
ChannelDone == pc = "loop" /\ i = Len(all_messages)
Positions == 1..Len(all_messages)
FirstOf(t) == all_messages[saved[t].ids[1]]
\* The text of the message right before position p; "" before the first.
TextBefore(p) == IF p = 1 THEN "" ELSE all_messages[p - 1].clean_content
SecondsApart(p, q) == all_messages[q].created_at - all_messages[p].created_at
gap_threshold == time_threshold_minutes * 60
IsEmptyTarget(m) == m.author = user_id /\ m.clean_content = ""

\* C1: every Turn holds only messages of the scraped author, at consecutive
\* positions of the channel's history, and its texts are those messages'.
C1_TurnsContiguous ==
    /\ Len(saved) = Len(result_messages)
    /\ \A t \in CurTurns :
         LET ids == saved[t].ids IN
         /\ Len(result_messages[t].group) = Len(ids)
         /\ \A j \in 1..Len(ids) :
              /\ ids[j] \in Positions
              /\ all_messages[ids[j]].author = user_id
              /\ result_messages[t].group[j] = all_messages[ids[j]].clean_content
              /\ j > 1 => ids[j] = ids[j - 1] + 1

\* A Turn of two messages in a channel where somebody else wrote too.
C1_Witness ==
    /\ ChannelDone
    /\ \E t \in CurTurns : Len(saved[t].ids) >= 2
    /\ \E p \in Positions : all_messages[p].author # user_id

\* C2: two non-empty messages of the scraped author with none of his
\* non-empty messages between them and more than gap_threshold apart never
\* share a Turn and end in two Turns; neighbours exactly gap_threshold apart
\* end in the same Turn.
C2_GapSplits ==
    /\ \A p, q \in Positions :
         ( /\ p < q
           /\ IsTargetText(all_messages[p]) /\ IsTargetText(all_messages[q])
           /\ \A r \in (p + 1)..(q - 1) : ~IsTargetText(all_messages[r])
           /\ SecondsApart(p, q) > gap_threshold )
         => /\ ~SameTurn(p, q)
            /\ ChannelDone => SeparateTurns(p, q)
    /\ \A p, q \in Positions :
         ( /\ q = p + 1
           /\ IsTargetText(all_messages[p]) /\ IsTargetText(all_messages[q])
           /\ SecondsApart(p, q) = gap_threshold
           /\ ChannelDone )
         => SameTurn(p, q)

\* Three messages in a row: the first two exactly gap_threshold apart and in
\* one Turn, the third a second later and in another.
C2_Witness ==
    /\ ChannelDone
    /\ \E p \in Positions :
         /\ p + 2 \in Positions
         /\ SecondsApart(p, p + 1) = gap_threshold
         /\ SameTurn(p, p + 1)
         /\ SecondsApart(p + 1, p + 2) > gap_threshold
         /\ SeparateTurns(p + 1, p + 2)

\* C3: two non-empty messages of the scraped author at most gap_threshold
\* apart, with no message of another author between them, end in the same
\* Turn.
C3_GapMerges ==
    ChannelDone =>
      \A p, q \in Positions :
         ( /\ p < q
           /\ IsTargetText(all_messages[p]) /\ IsTargetText(all_messages[q])
           /\ \A r \in (p + 1)..(q - 1) : all_messages[r].author = user_id
           /\ SecondsApart(p, q) <= gap_threshold )
         => SameTurn(p, q)

\* C4: a Turn whose first message replies to a message that still exists has
\* that message's text as prev.
C4_ReplyOverride ==
    \A t \in CurTurns :
       FirstOf(t).reference = "live" => result_messages[t].prev = ReferencedText

\* C5: a Turn whose first message is no reply has as prev the text of the
\* message right before its first message, "" at the head of the channel.
C5_PrecedingIsPrevious ==
    \A t \in CurTurns :
       FirstOf(t).reference = "none"
       => result_messages[t].prev = TextBefore(saved[t].ids[1])

\* A later Turn of a channel, opened by a message that is no reply and
\* follows a message with text.
C5_Witness ==
    \E t, u \in CurTurns :
       /\ u < t
       /\ FirstOf(t).reference = "none"
       /\ result_messages[t].prev = "a"

\* C6: an empty message of the scraped author is in no Turn and never in
\* current_group.
C6_EmptyNeverGrouped ==
    /\ \A k \in 1..Len(current_group) : current_group[k].clean_content # ""
    /\ \A t \in 1..Len(result_messages) :
         \A j \in 1..Len(result_messages[t].group) :
            result_messages[t].group[j] # ""
    /\ \A t \in CurTurns :
         \A j \in 1..Len(saved[t].ids) :
            ~IsEmptyTarget(all_messages[saved[t].ids[j]])

\* A channel with an empty message of the scraped author, and a Turn.
C6_Witness ==
    /\ ChannelDone
    /\ CurTurns # {}
    /\ \E p \in Positions : IsEmptyTarget(all_messages[p])

\* C7: processing an empty message of the scraped author changes neither
\* current_group nor preceding_message, and saves nothing.
C7_EmptySkipped ==
    [][ ( /\ pc = "loop"
          /\ i < Len(all_messages)
          /\ IsEmptyTarget(all_messages[i + 1]) )
        => /\ current_group' = current_group
           /\ preceding_message' = preceding_message
           /\ result_messages' = result_messages ]_vars

\* C8: a Turn whose first message replies to a deleted message has as prev
\* the text of the message right before its first message.
C8_DeletedReplyFallsBack ==
    \A t \in CurTurns :
       FirstOf(t).reference = "deleted"
       => result_messages[t].prev = TextBefore(saved[t].ids[1])

\* A Turn opened by a reply to a deleted message, after a message with text.
C8_Witness ==
    \E t \in CurTurns :
       /\ FirstOf(t).reference = "deleted"
       /\ saved[t].ids[1] > 1
       /\ result_messages[t].prev = "a"

\* The channels whose fetch was refused.
Refused == {log[k][2] : k \in {j \in 1..Len(log) : log[j][1] = "Forbidden"}}

\* C9: a refused channel adds no Turn and removes none, the loop goes on to
\* the next channel, every channel is tried, and the function returns.
C9_ForbiddenContained ==
    /\ [][ ( /\ pc = "channel"
             /\ Len(log') = Len(log) + 2
             /\ log'[Len(log')] = <<"Forbidden", channels[ci]>> )
           => /\ result_messages' = result_messages
              /\ pc' = "channel"
              /\ ci' = ci + 1 ]_vars
    /\ [](pc # "raised")
    /\ [](\A t \in 1..Len(saved) : channels[saved[t].ch] \notin Refused)
    /\ []( (pc = "done" /\ channels # <<>>)
           => \A c \in 1..Len(channels) :
                 \E k \in 1..Len(log) : log[k] = <<"Scraping", channels[c]>> )

\* The function has returned, a channel was refused, another gave a Turn.
C9_Witness ==
    /\ pc = "done"
    /\ Refused # {}
    /\ result_messages # <<>>

\* The ids of the Turns of the channel being scraped, one after the other.
RECURSIVE EmittedIds(_)
EmittedIds(n) ==
    IF n = 0 THEN <<>>
    ELSE EmittedIds(n - 1) \o (IF saved[n].ch = ci THEN saved[n].ids ELSE <<>>)

\* The positions of the non-empty messages of the scraped author among the
\* first n messages, in order.
RECURSIVE TargetIds(_)
TargetIds(n) ==
    IF n = 0 THEN <<>>
    ELSE TargetIds(n - 1) \o
         (IF IsTargetText(all_messages[n]) THEN <<n>> ELSE <<>>)

\* C12: every Turn has at least one text, and a channel without a non-empty
\* message of the scraped author gives no Turn.
C12_TurnsNonEmpty ==
    /\ \A t \in 1..Len(result_messages) : Len(result_messages[t].group) >= 1
    /\ \A t \in 1..Len(saved) : Len(saved[t].ids) >= 1
    /\ (pc = "loop" /\ \A p \in Positions : ~IsTargetText(all_messages[p]))
       => CurTurns = {}

\* A channel gone through whose only messages of the scraped author are
\* empty, followed by somebody else's message, and no Turn.
C12_Witness ==
    /\ ChannelDone
    /\ \E p \in Positions :
         /\ IsEmptyTarget(all_messages[p])
         /\ p + 1 \in Positions
         /\ all_messages[p + 1].author # user_id
    /\ \A p \in Positions : ~IsTargetText(all_messages[p])
    /\ CurTurns = {}

\* C13: once the channel is gone through, the Turns' messages, one Turn after
\* the other, are the non-empty messages of the scraped author in order: each
\* exactly once.  While it is gone through, the saved ones and those in
\* current_group are those met so far.
C13_ExactlyOnce ==
    /\ ChannelDone => EmittedIds(Len(saved)) = TargetIds(Len(all_messages))
    /\ (pc = "loop" /\ i < Len(all_messages))
       => EmittedIds(Len(saved)) \o SavedIds(current_group) = TargetIds(i)

\* A channel gone through that ends with a message of the scraped author and
\* gave two Turns.
C13_Witness ==
    /\ ChannelDone
    /\ Len(all_messages) >= 1
    /\ IsTargetText(all_messages[Len(all_messages)])
    /\ Cardinality(CurTurns) >= 2

\* C14: a run of non-empty messages of the scraped author, each at most
\* gap_threshold after the one before, ends in one Turn, however far apart its
\* first and last message are.
C14_GapFromLast ==
    ChannelDone =>
      \A p, q \in Positions :
         ( /\ p < q
           /\ \A r \in p..q : IsTargetText(all_messages[r])
           /\ \A r \in p..(q - 1) : SecondsApart(r, r + 1) <= gap_threshold )
         => SameTurn(p, q)

\* Such a run in one Turn, its ends more than gap_threshold apart.
C14_Witness ==
    /\ ChannelDone
    /\ \E p, q \in Positions :
         /\ p < q
         /\ \A r \in p..q : IsTargetText(all_messages[r])
         /\ \A r \in p..(q - 1) : SecondsApart(r, r + 1) <= gap_threshold
         /\ SecondsApart(p, q) > gap_threshold
         /\ SameTurn(p, q)

LastOf(seq) == seq[Len(seq)]

\* C15: when message i is about to be processed with a group in progress,
\* the last message of the group is the message right before it; and a Turn
\* that starts right after the Turn before it ends (a gap split) has as prev
\* the last text of that Turn.
C15_GroupEndsAtPrevious ==
    /\ (pc = "loop" /\ i < Len(all_messages) /\ current_group # <<>>)
       => LastOf(current_group) = all_messages[i]
    /\ \A t \in CurTurns :
         ( /\ t - 1 \in CurTurns
           /\ saved[t].ids[1] = LastOf(saved[t - 1].ids) + 1 )
         => result_messages[t].prev = LastOf(result_messages[t - 1].group)

\* A Turn split off the Turn before it by a gap: its first message was
\* processed with a group in progress.
C15_Witness ==
    /\ pc = "loop"
    /\ \E t \in CurTurns :
         /\ t - 1 \in CurTurns
         /\ saved[t].ids[1] = LastOf(saved[t - 1].ids) + 1
         /\ result_messages[t].prev = "a"

\* The grouping of the first n messages of msgs on their own, from the state
\* of lines 63-64: the group, the preceding message and the Turns saved.
RECURSIVE AloneAfter(_, _, _)
AloneAfter(msgs, n, minutes) ==
    IF n = 0 THEN [group |-> <<>>, prec |-> None, turns |-> <<>>]
    ELSE LET before == AloneAfter(msgs, n - 1, minutes)
             st == LoopBody(n - 1, msgs, before.group, before.prec, minutes)
         IN [group |-> st.group, prec |-> st.prec,
             turns |-> before.turns \o
                [k \in 1..Len(st.saves) |->
                    SavedTurn(st.saves[k][1], st.saves[k][2])]]

\* The Turns of the channel being scraped, in order.
RECURSIVE CurResult(_)
CurResult(n) ==
    IF n = 0 THEN <<>>
    ELSE CurResult(n - 1) \o
         (IF saved[n].ch = ci THEN <<result_messages[n]>> ELSE <<>>)

---------------------------------------------------------------------------
\* Properties of on_message.

\* C10: when the generated text has no "### Response:" marker, the failure
\* is printed and nothing is sent.
C10_NoMarkerNothingSent ==
    ( /\ last.handled
      /\ ~IsOwnMessage(last.message)
      /\ InTargetChannel(last.message)
      /\ ~last.matched )
    => /\ last.delivered = <<>>
       /\ \E k \in 1..Len(last.printed) : last.printed[k] = "No match found"

====
